---- MODULE Spec2Model ----
(***************************************************************************)
(* A model of the TTL cache: the Item (item.go), the expiration index      *)
(* (priority_queue.go, a container/heap of *Item ordered by ExpireAt), the *)
(* Cache with its mutex, its callers and the goroutine                     *)
(* startExpirationProcessing (cache.go).                                   *)
(*                                                                         *)
(* Time is counted in whole units (think seconds); time.Now() is `now`.    *)
(* The zero time.Time is 0 and the clock starts at 1, so that the zero     *)
(* time is before every instant the clock shows, as in Go.                 *)
(***************************************************************************)
EXTENDS Integers, Sequences, FiniteSets, TLC

\* ---------------------------------------------------------------- bounds
MaxTime == 3
MaxTTL == 1
NKeys == 2
NThreads == 1
MaxItems == 2
NValues == 2
LongTTL == 2

\* ------------------------------------------------------ program constants
ItemNotExpire == -1
ItemExpireWithGlobalTTL == 0
\* time.Hour and time.Microsecond in the model's unit (a microsecond is below
\* its resolution: a timer set to it fires within the same unit).
Hour == 3600
Microsecond == 0
ZeroTime == 0
StartTime == 1

Keys == 1..NKeys
Threads == 1..NThreads
Ids == 1..MaxItems
Values == 1..NValues
\* The data of the calls of a specification that does not tell values apart.
SomeData == 1
Nil == 0
ItemTTLs == ItemNotExpire..MaxTTL
GlobalTTLs == 0..MaxTTL

\* An Item object (item.go, type Item); Data is an opaque payload and is left out.
NoData == 0
NoItem == [key |-> 0, Data |-> NoData, TTL |-> 0, ExpireAt |-> ZeroTime, queueIndex |-> -1]

VARIABLES
    now,                    \* time.Now()
    ttl,                    \* cache.ttl
    items,                  \* cache.items: key -> Item pointer (an id) or Nil
    mem,                    \* the Item objects, by id; NoItem where none is allocated
    priorityQueue,          \* cache.priorityQueue.items: the ids in array order
    expirationTime,         \* cache.expirationTime
    skipTTLExtension,       \* cache.skipTTLExtension
    checkExpireCallback,    \* cache.checkExpireCallback != nil
    expireCallback,         \* cache.expireCallback != nil
    newItemCallback,        \* cache.newItemCallback != nil
    isShutDown,             \* cache.isShutDown
    shutdownClosed,         \* close(cache.shutdownSignal) has run
    mutex,                  \* cache.mutex: "free", or "sweep" during an eviction pass
    sweepPc,                \* where startExpirationProcessing stands
    i,                      \* its cursor i (a local of the pass: 0 outside it)
    pc,                     \* where each caller stands
    call,                   \* the key each caller's SetWithTTL passes to the new-item callback
    ret,                    \* what the step just taken returned: Get's and Remove's bool,
                            \* the check callback's answer (true: evict), pop's item,
                            \* Close's return
    handshakes,             \* how many Close calls sent a stop request
    started                 \* the go statements of the step just taken: the <<key, Data>>
                            \* each hands to the expire callback

vars == <<now, ttl, items, mem, priorityQueue, expirationTime, skipTTLExtension,
          checkExpireCallback, expireCallback, newItemCallback, isShutDown, shutdownClosed, mutex,
          sweepPc, i, pc, call, ret, handshakes, started>>

\* ------------------------------------------------------------ item.go
\* func (item *Item) touch()
touch(it, t) ==
    IF it.TTL > 0 THEN [it EXCEPT !.ExpireAt = t + it.TTL] ELSE it

\* func (item *Item) expired() bool
expired(it, t) ==
    IF it.TTL <= 0 THEN FALSE ELSE it.ExpireAt < t

\* func newItem(key, data, ttl)
newItem(k, data, d) ==
    touch([key |-> k, Data |-> data, TTL |-> d, ExpireAt |-> ZeroTime,
           queueIndex |-> -1], now)

\* --------------------------------------------------- priority_queue.go
\* A queue is h = [pq |-> the array of ids, mem |-> the objects]; Go's indices
\* start at 0, the sequence's at 1.
At(h, n) == h.pq[n + 1]

pqLen(h) == Len(h.pq)

\* Less without the rule for the zero time: a fault injected to test C9.
LessZeroFirst(h, a, b) ==
    LET x == h.mem[At(h, a)].ExpireAt
        y == h.mem[At(h, b)].ExpireAt
    IN x < y

\* func (pq priorityQueue) Less(i, j int) bool
Less(h, a, b) ==
    LET x == h.mem[At(h, a)].ExpireAt
        y == h.mem[At(h, b)].ExpireAt
    IN IF x = ZeroTime THEN FALSE
       ELSE IF y = ZeroTime THEN TRUE
       ELSE x < y

\* func (pq priorityQueue) Swap(i, j int)
Swap(h, a, b) ==
    LET x == At(h, a)
        y == At(h, b)
    IN IF a = b THEN [h EXCEPT !.mem[x].queueIndex = a]
       ELSE [pq  |-> [h.pq EXCEPT ![a + 1] = y, ![b + 1] = x],
             mem |-> [h.mem EXCEPT ![y].queueIndex = a, ![x].queueIndex = b]]

\* func (pq *priorityQueue) Push(x interface{})
Push(h, id) ==
    [pq  |-> Append(h.pq, id),
     mem |-> [h.mem EXCEPT ![id].queueIndex = Len(h.pq)]]

\* func (pq *priorityQueue) Pop() interface{}: the array without its last item,
\* whose queueIndex becomes -1.
Pop(h) ==
    LET n == Len(h.pq)
    IN [pq  |-> SubSeq(h.pq, 1, n - 1),
        mem |-> [h.mem EXCEPT ![h.pq[n]].queueIndex = -1]]

\* container/heap.up
RECURSIVE up(_, _)
up(h, j) ==
    LET p == (j - 1) \div 2
    IN IF j <= 0 \/ ~Less(h, j, p) THEN h
       ELSE up(Swap(h, p, j), p)

\* container/heap.down; the result is the queue and the index the item ended at.
RECURSIVE down(_, _, _)
down(h, a, n) ==
    LET j1 == 2 * a + 1
        j2 == j1 + 1
        j  == IF j2 < n /\ Less(h, j2, j1) THEN j2 ELSE j1
    IN IF j1 >= n THEN [h |-> h, at |-> a]
       ELSE IF ~Less(h, j, a) THEN [h |-> h, at |-> a]
       ELSE down(Swap(h, a, j), j, n)

\* container/heap.Fix
heapFix(h, a) ==
    LET d == down(h, a, pqLen(h))
    IN IF d.at > a THEN d.h ELSE up(d.h, a)

\* container/heap.Push
heapPush(h, id) == up(Push(h, id), pqLen(h))

\* container/heap.Pop
heapPop(h) ==
    LET n == pqLen(h) - 1
    IN Pop(down(Swap(h, 0, n), 0, n).h)

\* container/heap.Remove
heapRemove(h, a) ==
    LET n == pqLen(h) - 1
        s == Swap(h, a, n)
        d == down(s, a, n)
    IN IF n = a THEN Pop(h)
       ELSE Pop(IF d.at > a THEN d.h ELSE up(d.h, a))

\* func (pq *priorityQueue) update(item *Item)
update(h, id) == heapFix(h, h.mem[id].queueIndex)

\* func (pq *priorityQueue) push(item *Item)
push(h, id) == heapPush(h, id)

\* func (pq *priorityQueue) remove(item *Item)
remove(h, id) == heapRemove(h, h.mem[id].queueIndex)

\* func (pq *priorityQueue) pop() *Item: the item returned (Nil on an empty
\* queue) and the queue left.
pop(h) ==
    IF pqLen(h) = 0 THEN [item |-> Nil, h |-> h]
    ELSE [item |-> At(h, 0), h |-> heapPop(h)]

\* ------------------------------------------------------------ cache.go
\* The queue with its objects, as the Cache holds it.
Queue == [pq |-> priorityQueue, mem |-> mem]

InQueue(q, id) == \E n \in 1..Len(q) : q[n] = id

\* The store after a step: the map its and the queue h. Objects nothing points to
\* any more are given back (Go's garbage collector), and the addresses are
\* renumbered in array order, which no code can observe.
Store(its, h) ==
    LET n == Len(h.pq)
        loose == {k \in Keys : its[k] # Nil /\ ~InQueue(h.pq, its[k])}
        addr(id) == IF InQueue(h.pq, id)
                    THEN CHOOSE p \in 1..n : h.pq[p] = id
                    ELSE n + Cardinality({k \in loose : its[k] <= id})
        old(a) == IF a <= n THEN h.pq[a]
                  ELSE CHOOSE id \in {its[k] : k \in loose} : addr(id) = a
    IN /\ items' = [k \in Keys |-> IF its[k] = Nil THEN Nil ELSE addr(its[k])]
       /\ priorityQueue' = [p \in 1..n |-> p]
       /\ mem' = [a \in Ids |->
                    IF a <= n + Cardinality(loose) THEN h.mem[old(a)] ELSE NoItem]

FreeIds == {id \in Ids : mem[id] = NoItem}

Min(S) == CHOOSE x \in S : \A y \in S : x <= y

NoRet == [call |-> "none", key |-> 0, result |-> FALSE]
NoCall == 0

\* An unrecovered panic of any goroutine ends the process.
Running == sweepPc # "panic" /\ \A t \in Threads : pc[t] # "panic"

\* if item.TTL >= 0 && (item.TTL > 0 || cache.ttl > 0)
Eligible(it) == it.TTL >= 0 /\ (it.TTL > 0 \/ ttl > 0)

\* if cache.ttl > 0 && item.TTL == 0 { item.TTL = cache.ttl }
Promote(it) ==
    IF ttl > 0 /\ it.TTL = 0 THEN [it EXCEPT !.TTL = ttl] ELSE it

\* func (cache *Cache) GetItem(key string) (*Item, bool, bool): whether the item
\* exists, whether to notify the goroutine, and the queue as the call leaves it.
GetItem(k) ==
    LET id == items[k]
        it == mem[id]
        it1 == Promote(it)
        it2 == IF ~skipTTLExtension THEN touch(it1, now) ELSE it1
    IN IF id = Nil \/ expired(mem[id], now)
       THEN [exists |-> FALSE, notify |-> FALSE, h |-> Queue]
       ELSE [exists |-> TRUE,
             notify |-> expirationTime > now + (IF Eligible(it) THEN it2 ELSE it).TTL,
             h |-> IF Eligible(it)
                   THEN update([pq |-> priorityQueue, mem |-> [mem EXCEPT ![id] = it2]], id)
                   ELSE Queue]

\* func (cache *Cache) SetWithTTL(key, data, ttl), from Lock to Unlock; the caller
\* goes on to the new-item callback or to the send on expirationNotification.
SetWithTTL(t, k, data, d) ==
    /\ Running
    /\ pc[t] = "idle"
    /\ mutex = "free"
    /\ LET g == GetItem(k)
           id == IF g.exists THEN items[k] ELSE Min(FreeIds)
           it0 == IF g.exists THEN [g.h.mem[id] EXCEPT !.Data = data, !.TTL = d]
                  ELSE newItem(k, data, d)
           it1 == IF Eligible(it0) THEN touch(Promote(it0), now) ELSE it0
           h0 == [pq |-> g.h.pq, mem |-> [g.h.mem EXCEPT ![id] = it1]]
           h1 == IF g.exists THEN update(h0, id) ELSE push(h0, id)
           its == [items EXCEPT ![k] = id]
       IN /\ g.exists \/ FreeIds # {}
          /\ Store(its, h1)
          /\ pc' = [pc EXCEPT ![t] =
                       IF ~g.exists /\ newItemCallback THEN "newItemCallback" ELSE "notify"]
          /\ call' = [call EXCEPT ![t] =
                         IF ~g.exists /\ newItemCallback THEN k ELSE NoCall]
          /\ started' = {}
          /\ ret' = NoRet
    /\ UNCHANGED <<now, ttl, expirationTime, skipTTLExtension, checkExpireCallback, expireCallback,
                   newItemCallback, isShutDown, shutdownClosed, mutex, sweepPc, i,
                   handshakes>>

\* func (cache *Cache) Set(key, data)
Set(t, k, data) == SetWithTTL(t, k, data, ItemExpireWithGlobalTTL)

\* cache.newItemCallback(key, data) returns (SetWithTTL, after Unlock).
NewItemCallbackReturn(t) ==
    /\ Running
    /\ pc[t] = "newItemCallback"
    /\ pc' = [pc EXCEPT ![t] = "notify"]
    /\ call' = [call EXCEPT ![t] = NoCall]
    /\ started' = {}
    /\ ret' = NoRet
    /\ UNCHANGED <<now, ttl, items, mem, priorityQueue, expirationTime, skipTTLExtension,
                   checkExpireCallback, expireCallback, newItemCallback, isShutDown, shutdownClosed,
                   mutex, sweepPc, i, handshakes>>

\* func (cache *Cache) Get(key string) (interface{}, bool), from Lock to Unlock; it
\* returns at once unless it has to send on expirationNotification.
Get(t, k) ==
    /\ Running
    /\ pc[t] = "idle"
    /\ mutex = "free"
    /\ LET g == GetItem(k)
       IN /\ Store(items, g.h)
          /\ pc' = [pc EXCEPT ![t] = IF g.notify THEN "notify" ELSE "idle"]
          /\ started' = {}
          /\ ret' = [call |-> "Get", key |-> k, result |-> g.exists]
    /\ UNCHANGED <<now, ttl, expirationTime, skipTTLExtension, checkExpireCallback, expireCallback,
                   newItemCallback, isShutDown, shutdownClosed, mutex, sweepPc, i, call,
                   handshakes>>

\* func (cache *Cache) GetTTL(key string) (time.Duration, bool)
GetTTL(t, k) ==
    /\ Running
    /\ pc[t] = "idle"
    /\ mutex = "free"
    /\ LET g == GetItem(k)
       IN /\ Store(items, g.h)
          /\ started' = {}
          /\ ret' = NoRet
    /\ UNCHANGED <<now, ttl, expirationTime, skipTTLExtension, checkExpireCallback, expireCallback,
                   newItemCallback, isShutDown, shutdownClosed, mutex, sweepPc, i, pc,
                   call, handshakes>>

\* Remove with the removal from the queue forgotten: a fault injected to test C12.
RemoveMapOnly(t, k) ==
    /\ Running
    /\ pc[t] = "idle"
    /\ mutex = "free"
    /\ items' = [items EXCEPT ![k] = Nil]
    /\ started' = {}
    /\ ret' = [call |-> "Remove", key |-> k, result |-> items[k] # Nil]
    /\ UNCHANGED <<now, ttl, mem, priorityQueue, expirationTime, skipTTLExtension,
                   checkExpireCallback, expireCallback, newItemCallback, isShutDown, shutdownClosed,
                   mutex, sweepPc, i, pc, call, handshakes>>

\* func (cache *Cache) Remove(key string) bool
Remove(t, k) ==
    /\ Running
    /\ pc[t] = "idle"
    /\ mutex = "free"
    /\ IF items[k] = Nil
       THEN /\ ret' = [call |-> "Remove", key |-> k, result |-> FALSE]
            /\ UNCHANGED <<items, mem, priorityQueue>>
       ELSE LET its == [items EXCEPT ![k] = Nil]
                h == remove(Queue, items[k])
            IN /\ Store(its, h)
               /\ ret' = [call |-> "Remove", key |-> k, result |-> TRUE]
    /\ started' = {}
    /\ UNCHANGED <<now, ttl, expirationTime, skipTTLExtension, checkExpireCallback, expireCallback,
                   newItemCallback, isShutDown, shutdownClosed, mutex, sweepPc, i, pc,
                   call, handshakes>>

\* func (cache *Cache) SetTTL(ttl time.Duration), from Lock to Unlock; the caller
\* goes on to the send on expirationNotification.
SetTTL(t, d) ==
    /\ Running
    /\ pc[t] = "idle"
    /\ mutex = "free"
    /\ ttl' = d
    /\ pc' = [pc EXCEPT ![t] = "notify"]
    /\ started' = {}
    /\ ret' = NoRet
    /\ UNCHANGED <<now, items, mem, priorityQueue, expirationTime, skipTTLExtension,
                   checkExpireCallback, expireCallback, newItemCallback, isShutDown, shutdownClosed,
                   mutex, sweepPc, i, call, handshakes>>

\* func (cache *Cache) SetExpirationCallback(callback): set or cleared.
SetExpirationCallback(b) ==
    /\ Running
    /\ expireCallback' = b
    /\ started' = {}
    /\ ret' = NoRet
    /\ UNCHANGED <<now, ttl, items, mem, priorityQueue, expirationTime, skipTTLExtension,
                   checkExpireCallback, newItemCallback, isShutDown, shutdownClosed,
                   mutex, sweepPc, i, pc, call, handshakes>>

\* func (cache *Cache) SetCheckExpirationCallback(callback): set or cleared.
SetCheckExpirationCallback(b) ==
    /\ Running
    /\ checkExpireCallback' = b
    /\ started' = {}
    /\ ret' = NoRet
    /\ UNCHANGED <<now, ttl, items, mem, priorityQueue, expirationTime, skipTTLExtension,
                   expireCallback, newItemCallback, isShutDown, shutdownClosed, mutex, sweepPc, i, pc,
                   call, handshakes>>

\* func (cache *Cache) SetNewItemCallback(callback): set or cleared.
SetNewItemCallback(b) ==
    /\ Running
    /\ newItemCallback' = b
    /\ started' = {}
    /\ ret' = NoRet
    /\ UNCHANGED <<now, ttl, items, mem, priorityQueue, expirationTime, skipTTLExtension,
                   checkExpireCallback, expireCallback, isShutDown, shutdownClosed, mutex, sweepPc, i, pc,
                   call, handshakes>>

\* func (cache *Cache) SkipTtlExtensionOnHit(value bool)
SkipTtlExtensionOnHit(b) ==
    /\ Running
    /\ skipTTLExtension' = b
    /\ started' = {}
    /\ ret' = NoRet
    /\ UNCHANGED <<now, ttl, items, mem, priorityQueue, expirationTime,
                   checkExpireCallback, expireCallback, newItemCallback, isShutDown, shutdownClosed,
                   mutex, sweepPc, i, pc, call, handshakes>>

\* The effect of Purge on the store: a new map and a new queue.
PurgeStore ==
    /\ items' = [k \in Keys |-> Nil]
    /\ priorityQueue' = <<>>
    /\ mem' = [id \in Ids |-> NoItem]

\* func (cache *Cache) Purge()
Purge(t) ==
    /\ Running
    /\ pc[t] = "idle"
    /\ mutex = "free"
    /\ PurgeStore
    /\ started' = {}
    /\ ret' = NoRet
    /\ UNCHANGED <<now, ttl, expirationTime, skipTTLExtension, checkExpireCallback, expireCallback,
                   newItemCallback, isShutDown, shutdownClosed, mutex, sweepPc, i, pc,
                   call, handshakes>>

\* func (cache *Cache) Count() int
Count(t) ==
    /\ Running
    /\ pc[t] = "idle"
    /\ mutex = "free"
    /\ started' = {}
    /\ ret' = NoRet
    /\ UNCHANGED <<now, ttl, items, mem, priorityQueue, expirationTime, skipTTLExtension,
                   checkExpireCallback, expireCallback, newItemCallback, isShutDown, shutdownClosed,
                   mutex, sweepPc, i, pc, call, handshakes>>

\* func (cache *Cache) Close(), from Lock to Unlock: the first call goes on to the
\* handshake, a later one to Purge.
Close(t) ==
    /\ Running
    /\ pc[t] = "idle"
    /\ mutex = "free"
    /\ isShutDown' = TRUE
    /\ pc' = [pc EXCEPT ![t] = IF ~isShutDown THEN "closeSend" ELSE "closePurge"]
    /\ started' = {}
    /\ ret' = NoRet
    /\ UNCHANGED <<now, ttl, items, mem, priorityQueue, expirationTime, skipTTLExtension,
                   checkExpireCallback, expireCallback, newItemCallback, shutdownClosed, mutex, sweepPc,
                   i, call, handshakes>>

\* SendShutdown with the request taken wherever the loop is, an eviction pass
\* included: a fault injected to test C18.
SendShutdownMidPass(t) ==
    /\ Running
    /\ pc[t] = "closeSend"
    /\ IF shutdownClosed
       THEN /\ pc' = [pc EXCEPT ![t] = "panic"]
            /\ UNCHANGED <<sweepPc, handshakes>>
       ELSE /\ sweepPc \in {"select", "scan", "callback"}
            /\ sweepPc' = "ack"
            /\ pc' = [pc EXCEPT ![t] = "closeWait"]
            /\ handshakes' = handshakes + 1
    /\ started' = {}
    /\ ret' = NoRet
    /\ UNCHANGED <<now, ttl, items, mem, priorityQueue, expirationTime, skipTTLExtension,
                   checkExpireCallback, expireCallback, newItemCallback, isShutDown, shutdownClosed,
                   mutex, i, call>>

\* cache.shutdownSignal <- feedback (Close) meets case shutdownFeedback :=
\* <-cache.shutdownSignal (the goroutine's select); a send on the closed channel
\* panics.
SendShutdown(t) ==
    /\ Running
    /\ pc[t] = "closeSend"
    /\ IF shutdownClosed
       THEN /\ pc' = [pc EXCEPT ![t] = "panic"]
            /\ UNCHANGED <<sweepPc, handshakes>>
       ELSE /\ sweepPc = "select"
            /\ sweepPc' = "ack"
            /\ pc' = [pc EXCEPT ![t] = "closeWait"]
            /\ handshakes' = handshakes + 1
    /\ started' = {}
    /\ ret' = NoRet
    /\ UNCHANGED <<now, ttl, items, mem, priorityQueue, expirationTime, skipTTLExtension,
                   checkExpireCallback, expireCallback, newItemCallback, isShutDown, shutdownClosed,
                   mutex, i, call>>

\* shutdownFeedback <- struct{}{} (the goroutine, which then returns) meets
\* <-feedback (Close).
AckShutdown(t) ==
    /\ Running
    /\ pc[t] = "closeWait"
    /\ sweepPc = "ack"
    /\ sweepPc' = "stopped"
    /\ pc' = [pc EXCEPT ![t] = "closeChan"]
    /\ started' = {}
    /\ ret' = NoRet
    /\ UNCHANGED <<now, ttl, items, mem, priorityQueue, expirationTime, skipTTLExtension,
                   checkExpireCallback, expireCallback, newItemCallback, isShutDown, shutdownClosed,
                   mutex, i, call, handshakes>>

\* close(cache.shutdownSignal); closing a closed channel panics.
CloseChan(t) ==
    /\ Running
    /\ pc[t] = "closeChan"
    /\ pc' = [pc EXCEPT ![t] = IF shutdownClosed THEN "panic" ELSE "closePurge"]
    /\ shutdownClosed' = TRUE
    /\ started' = {}
    /\ ret' = NoRet
    /\ UNCHANGED <<now, ttl, items, mem, priorityQueue, expirationTime, skipTTLExtension,
                   checkExpireCallback, expireCallback, newItemCallback, isShutDown, mutex, sweepPc, i,
                   call, handshakes>>

\* cache.Purge() at the end of Close, which then returns.
ClosePurge(t) ==
    /\ Running
    /\ pc[t] = "closePurge"
    /\ mutex = "free"
    /\ PurgeStore
    /\ pc' = [pc EXCEPT ![t] = "idle"]
    /\ started' = {}
    /\ ret' = [call |-> "Close", key |-> 0, result |-> TRUE]
    /\ UNCHANGED <<now, ttl, expirationTime, skipTTLExtension, checkExpireCallback, expireCallback,
                   newItemCallback, isShutDown, shutdownClosed, mutex, sweepPc, i, call,
                   handshakes>>

\* ------------------------------------ cache.go: startExpirationProcessing
\* The sleepTime the loop computes under the lock.
SleepTime ==
    IF Len(priorityQueue) > 0
    THEN LET e == mem[priorityQueue[1]].ExpireAt
             s == e - now
             c == IF s < 0 /\ e = ZeroTime THEN Hour
                  ELSE IF s < 0 THEN Microsecond
                  ELSE s
         IN IF ttl > 0 /\ ttl < c THEN ttl ELSE c
    ELSE IF ttl > 0 THEN ttl
    ELSE Hour

\* The top of the loop: Lock, compute sleepTime, record expirationTime, Unlock,
\* timer.Reset(sleepTime). The timer is due at expirationTime.
SweepSleep ==
    /\ Running
    /\ sweepPc = "top"
    /\ mutex = "free"
    /\ expirationTime' = now + SleepTime
    /\ sweepPc' = "select"
    /\ started' = {}
    /\ ret' = NoRet
    /\ UNCHANGED <<now, ttl, items, mem, priorityQueue, skipTTLExtension,
                   checkExpireCallback, expireCallback, newItemCallback, isShutDown, shutdownClosed,
                   mutex, i, pc, call, handshakes>>

\* case <-cache.expirationNotification meets a caller's
\* cache.expirationNotification <- true; the caller returns.
Notify(t) ==
    /\ Running
    /\ pc[t] = "notify"
    /\ sweepPc = "select"
    /\ sweepPc' = "top"
    /\ pc' = [pc EXCEPT ![t] = "idle"]
    /\ started' = {}
    /\ ret' = NoRet
    /\ UNCHANGED <<now, ttl, items, mem, priorityQueue, expirationTime, skipTTLExtension,
                   checkExpireCallback, expireCallback, newItemCallback, isShutDown, shutdownClosed,
                   mutex, i, call, handshakes>>

\* case <-timer.C: Lock; an empty queue sends the loop back to the top, otherwise
\* the eviction pass starts with i := 0 and item := items[0]. The timer fires
\* once its sleepTime has passed; a tick left in timer.C by an earlier firing is
\* not modelled.
SweepTimer ==
    /\ Running
    /\ sweepPc = "select"
    /\ now >= expirationTime
    /\ mutex = "free"
    /\ IF Len(priorityQueue) = 0
       THEN sweepPc' = "top" /\ UNCHANGED <<mutex, i>>
       ELSE sweepPc' = "scan" /\ mutex' = "sweep" /\ i' = 0
    /\ started' = {}
    /\ ret' = NoRet
    /\ UNCHANGED <<now, ttl, items, mem, priorityQueue, expirationTime, skipTTLExtension,
                   checkExpireCallback, expireCallback, newItemCallback, isShutDown, shutdownClosed, pc,
                   call, handshakes>>

\* The loop's next state after it removed or kept an item and the queue is h: the
\* post statement item = cache.priorityQueue.items[i] is an index out of range, a
\* panic, when i is not below the length.
AfterItem(h, n) ==
    IF n >= Len(h.pq) THEN "panic" ELSE "scan"

\* cache.priorityQueue.remove(item); delete(cache.items, item.key); the expire
\* callback, if any, is started on a goroutine of its own; an empty queue ends the
\* pass (goto done, Unlock).
Evict ==
    LET id == priorityQueue[i + 1]
        h == remove(Queue, id)
        its == [items EXCEPT ![mem[id].key] = Nil]
    IN /\ Store(its, h)
       /\ started' = IF expireCallback THEN {<<mem[id].key, mem[id].Data>>} ELSE {}
       /\ IF Len(h.pq) = 0
          THEN sweepPc' = "top" /\ mutex' = "free" /\ i' = 0
          ELSE sweepPc' = AfterItem(h, i) /\ UNCHANGED <<mutex, i>>

\* The condition of the pass's loop, item.expired(): an item that is not expired
\* ends the pass (Unlock); an expired one is evicted, or first shown to the
\* check callback when one is set.
SweepScan ==
    /\ Running
    /\ sweepPc = "scan"
    /\ LET id == priorityQueue[i + 1]
       IN IF ~expired(mem[id], now)
          THEN /\ sweepPc' = "top"
               /\ mutex' = "free"
               /\ i' = 0
               /\ started' = {}
               /\ UNCHANGED <<items, mem, priorityQueue>>
          ELSE IF checkExpireCallback
          THEN /\ sweepPc' = "callback"
               /\ started' = {}
               /\ UNCHANGED <<items, mem, priorityQueue, i, mutex>>
          ELSE Evict
    /\ ret' = NoRet
    /\ UNCHANGED <<now, ttl, expirationTime, skipTTLExtension, checkExpireCallback, expireCallback,
                   newItemCallback, isShutDown, shutdownClosed, pc, call, handshakes>>

\* Keep with the re-touch forgotten: a fault injected to test C6.
KeepNoTouch ==
    LET id == priorityQueue[i + 1]
        h == update(Queue, id)
    IN /\ Store(items, h)
       /\ started' = {}
       /\ IF i + 1 = Len(h.pq)
          THEN sweepPc' = "top" /\ mutex' = "free" /\ i' = 0
          ELSE sweepPc' = "scan" /\ i' = i + 1 /\ UNCHANGED mutex

\* item.touch(); cache.priorityQueue.update(item); i++; the pass ends (break,
\* Unlock) when i reaches the length.
Keep ==
    LET id == priorityQueue[i + 1]
        it == touch(mem[id], now)
        h == update([pq |-> priorityQueue, mem |-> [mem EXCEPT ![id] = it]], id)
    IN /\ Store(items, h)
       /\ started' = {}
       /\ IF i + 1 = Len(h.pq)
          THEN sweepPc' = "top" /\ mutex' = "free" /\ i' = 0
          ELSE sweepPc' = "scan" /\ i' = i + 1 /\ UNCHANGED mutex

\* cache.checkExpireCallback(item.key, item.Data) returns, under the lock: true
\* to have the item evicted, false to keep it.
SweepCallback(evict) ==
    /\ Running
    /\ sweepPc = "callback"
    /\ IF evict THEN Evict ELSE Keep
    /\ ret' = [call |-> "checkExpireCallback", key |-> mem[priorityQueue[i + 1]].key,
               result |-> evict]
    /\ UNCHANGED <<now, ttl, expirationTime, skipTTLExtension, checkExpireCallback, expireCallback,
                   newItemCallback, isShutDown, shutdownClosed, pc, call, handshakes>>

\* ------------------------------------------------------------- the clock
Tick ==
    /\ Running
    /\ now < MaxTime
    /\ now' = now + 1
    /\ started' = {}
    /\ ret' = NoRet
    /\ UNCHANGED <<ttl, items, mem, priorityQueue, expirationTime, skipTTLExtension,
                   checkExpireCallback, expireCallback, newItemCallback, isShutDown, shutdownClosed,
                   mutex, sweepPc, i, pc, call, handshakes>>

\* ------------------------------------------------------ the specification
\* func NewCache() *Cache, with the goroutine started.
Init ==
    /\ now = StartTime
    /\ ttl = 0
    /\ items = [k \in Keys |-> Nil]
    /\ mem = [id \in Ids |-> NoItem]
    /\ priorityQueue = <<>>
    /\ expirationTime = StartTime
    /\ skipTTLExtension = FALSE
    /\ checkExpireCallback = FALSE
    /\ expireCallback = FALSE
    /\ newItemCallback = FALSE
    /\ isShutDown = FALSE
    /\ shutdownClosed = FALSE
    /\ mutex = "free"
    /\ sweepPc = "top"
    /\ i = 0
    /\ pc = [t \in Threads |-> "idle"]
    /\ call = [t \in Threads |-> NoCall]
    /\ ret = NoRet
    /\ handshakes = 0
    /\ started = {}

Caller(t) ==
    \/ \E k \in Keys : \E d \in ItemTTLs : SetWithTTL(t, k, SomeData, d)
    \/ \E k \in Keys : Set(t, k, SomeData)
    \/ \E k \in Keys : Get(t, k)
    \/ \E k \in Keys : GetTTL(t, k)
    \/ \E k \in Keys : Remove(t, k)
    \/ Count(t)
    \/ \E d \in GlobalTTLs : SetTTL(t, d)
    \/ Purge(t)
    \/ Close(t)
    \/ SendShutdown(t)
    \/ AckShutdown(t)
    \/ CloseChan(t)
    \/ ClosePurge(t)
    \/ Notify(t)

Config ==
    \/ \E b \in BOOLEAN : SetCheckExpirationCallback(b)
    \/ \E b \in BOOLEAN : SkipTtlExtensionOnHit(b)

Sweep ==
    \/ SweepSleep
    \/ SweepTimer
    \/ SweepScan
    \/ \E b \in BOOLEAN : SweepCallback(b)

\* The cache with the conditional-eviction callback and the extension-on-read
\* flag set and cleared at any moment, and no new-item callback.
Next ==
    \/ \E t \in Threads : Caller(t)
    \/ Config
    \/ Sweep
    \/ Tick

Spec == Init /\ [][Next]_vars

\* The cache with the new-item callback set and cleared at any moment, and
\* neither a conditional-eviction callback nor a change of the extension-on-read
\* flag.
NextNewItem ==
    \/ \E t \in Threads : Caller(t)
    \/ \E t \in Threads : NewItemCallbackReturn(t)
    \/ \E b \in BOOLEAN : SetNewItemCallback(b)
    \/ SweepSleep
    \/ SweepTimer
    \/ SweepScan
    \/ Tick

SpecNewItem == Init /\ [][NextNewItem]_vars

\* The cache with the expiration callback and the conditional-eviction callback
\* set and cleared at any moment, values that differ, and entries leaving through
\* the eviction pass, Remove, Purge and Close.
NextExpire ==
    \/ \E t \in Threads : \E k \in Keys : \E v \in Values : \E d \in ItemTTLs :
           SetWithTTL(t, k, v, d)
    \/ \E t \in Threads : \E k \in Keys : Remove(t, k)
    \/ \E t \in Threads : Purge(t)
    \/ \E t \in Threads : Close(t)
    \/ \E t \in Threads : SendShutdown(t)
    \/ \E t \in Threads : AckShutdown(t)
    \/ \E t \in Threads : CloseChan(t)
    \/ \E t \in Threads : ClosePurge(t)
    \/ \E t \in Threads : Notify(t)
    \/ \E b \in BOOLEAN : SetExpirationCallback(b)
    \/ \E b \in BOOLEAN : SetCheckExpirationCallback(b)
    \/ Sweep
    \/ Tick

SpecExpire == Init /\ [][NextExpire]_vars

\* The ttl arguments of SetWithTTL when an entry's ttl may exceed the global one.
LongTTLs == ItemNotExpire..LongTTL

\* The cache with entry ttls longer than the global ttl, the extension-on-read
\* flag set and cleared at any moment, no callback and no shutdown.
NextLongTTL ==
    \/ \E t \in Threads : \E k \in Keys : \E d \in LongTTLs : SetWithTTL(t, k, SomeData, d)
    \/ \E t \in Threads : \E k \in Keys : Get(t, k)
    \/ \E t \in Threads : \E k \in Keys : GetTTL(t, k)
    \/ \E t \in Threads : \E d \in GlobalTTLs : SetTTL(t, d)
    \/ \E t \in Threads : Notify(t)
    \/ \E b \in BOOLEAN : SkipTtlExtensionOnHit(b)
    \/ SweepSleep
    \/ SweepTimer
    \/ SweepScan
    \/ Tick

SpecLongTTL == Init /\ [][NextLongTTL]_vars

\* ------------------------------------------------- the claims on the cache
\* The items the index holds for key k.
IndexEntries(k) == {id \in Ids : InQueue(priorityQueue, id) /\ mem[id].key = k}

\* An item's content, its position left out.
Entry(it) == [key |-> it.key, TTL |-> it.TTL, ExpireAt |-> it.ExpireAt]

\* How many items of the index q have the content e.
Copies(q, m, e) == Cardinality({n \in 1..Len(q) : Entry(m[q[n]]) = e})

\* C1. Expiration correctness, the part "found before expire_at": a Get of a key
\* never reports not-found while the store holds an entry for that key with
\* ttl > 0 whose expire_at is still ahead.
C1_FoundBeforeExpireAt ==
    (ret.call = "Get" /\ ~ret.result) =>
        \A id \in IndexEntries(ret.key) : ~(mem[id].TTL > 0 /\ now < mem[id].ExpireAt)

\* C2. No ordinary operation blocks for ever: a caller of Get, Set, SetWithTTL or
\* SetTTL that waits to hand its wake signal to the Sweep Loop is never left with
\* a Sweep Loop that has returned, for then nobody will ever take the signal.
C2_NoCallerBlocksForever ==
    \A t \in Threads : pc[t] = "notify" => sweepPc # "stopped"

\* C3. Idempotent shutdown: at most one Close performs the handshake, no Close
\* panics on the shutdown channel, a Close that has started is never left without
\* a live Sweep Loop to answer it or a live process to return in, and the store
\* is empty when a Close returns.
C3_IdempotentShutdown ==
    /\ handshakes <= 1
    /\ \A t \in Threads : pc[t] # "panic"
    /\ \A t \in Threads : pc[t] = "closeSend" => sweepPc # "stopped"
    /\ \A t \in Threads :
           pc[t] \in {"closeSend", "closeWait", "closeChan", "closePurge"} =>
               sweepPc # "panic"
    /\ ret.call = "Close" => priorityQueue = <<>> /\ \A k \in Keys : items[k] = Nil

\* C4. Never-expire exemption: an entry stored with ttl < 0 stays in the map as
\* long as the index holds it, and a Get of its key never reports not-found.
C4_NeverExpireExemption ==
    /\ \A id \in Ids : (InQueue(priorityQueue, id) /\ mem[id].TTL < 0) =>
           items[mem[id].key] = id
    /\ (ret.call = "Get" /\ ~ret.result) =>
           \A id \in IndexEntries(ret.key) : mem[id].TTL >= 0

\* C5. Never-expire entries are eligible for callback-driven eviction: when an
\* eviction pass examines an entry with ttl < 0 while a conditional-eviction
\* callback is configured, it moves on by asking the callback.
C5_NeverExpireEligible ==
    [][(/\ sweepPc = "scan"
        /\ checkExpireCallback
        /\ mem[priorityQueue[i + 1]].TTL < 0
        /\ sweepPc' # sweepPc) => sweepPc' = "callback"]_vars

C7_ExtensionOnRead ==
    [][\A k \in Keys : (ret'.call = "Get" /\ ret'.key = k) =>
          /\ (\E id \in IndexEntries(k) : mem[id].TTL > 0 /\ now < mem[id].ExpireAt)
                => ret'.result
          /\ (ret'.result /\ mem[items[k]].TTL > 0) =>
                mem'[items'[k]].ExpireAt =
                    IF skipTTLExtension THEN mem[items[k]].ExpireAt
                    ELSE now + mem[items[k]].TTL
          /\ (/\ skipTTLExtension
              /\ items[k] # Nil
              /\ mem[items[k]].TTL > 0
              /\ mem[items[k]].ExpireAt < now) => ~ret'.result]_vars

\* C8. Global TTL promotion: a Get always finds a key whose entry still has
\* ttl = 0, and a step (a Get or a Set) that promotes an entry from ttl = 0 to a
\* positive ttl g leaves it with expire_at = now + g, whatever the
\* extension-on-read flag.
C8_GlobalTTLPromotion ==
    [][\A k \in Keys :
          /\ (/\ ret'.call = "Get"
              /\ ret'.key = k
              /\ items[k] # Nil
              /\ mem[items[k]].TTL = 0) => ret'.result
          /\ (/\ items[k] # Nil
              /\ items'[k] # Nil
              /\ mem[items[k]].TTL = 0
              /\ mem'[items'[k]].TTL > 0) =>
                mem'[items'[k]].ExpireAt = now + mem'[items'[k]].TTL]_vars

\* C10. New-item notification: a Set that puts a key into an empty slot of the
\* map while a new-item callback is configured invokes the callback for that
\* key, and the callback is never invoked for a key of which the store holds an
\* entry that is not time-expired.
C10_NewItemNotification ==
    [][\A t \in Threads :
          /\ \A k \in Keys :
                (/\ pc[t] = "idle"
                 /\ newItemCallback
                 /\ items[k] = Nil
                 /\ items'[k] # Nil) => pc'[t] = "newItemCallback" /\ call'[t] = k
          /\ (pc[t] = "idle" /\ pc'[t] = "newItemCallback") =>
                \A id \in IndexEntries(call'[t]) : expired(mem[id], now)]_vars

\* ----------------------------------------------------------------- C12
\* Every item of the index q records its own position.
Tracked(q, m) == \A n \in 1..Len(q) : m[q[n]].queueIndex = n - 1

\* C12. Remove: Remove(key) on a key that is not in the map returns false and
\* leaves the map, the index and every entry as they were; on a key in the map
\* it returns true, the key leaves the map and its entry leaves the index, every
\* other key keeps its entry, every other entry stays in the index, and each
\* entry's queueIndex is its position; in both cases the caller returns without
\* sending a wake signal.
C12_Remove ==
    [][ret'.call = "Remove" =>
          LET k == ret'.key
              all == {Entry(mem[id]) : id \in Ids}
          IN /\ pc' = pc
             /\ ret'.result = (items[k] # Nil)
             /\ ~ret'.result => items' = items /\ mem' = mem
                                  /\ priorityQueue' = priorityQueue
             /\ ret'.result =>
                  LET gone == Entry(mem[items[k]])
                  IN /\ items'[k] = Nil
                     /\ Len(priorityQueue') = Len(priorityQueue) - 1
                     /\ \A e \in all : Copies(priorityQueue', mem', e) =
                            Copies(priorityQueue, mem, e) - (IF e = gone THEN 1 ELSE 0)
                     /\ \A j \in Keys \ {k} :
                            IF items[j] = Nil THEN items'[j] = Nil
                            ELSE /\ items'[j] # Nil
                                 /\ Entry(mem'[items'[j]]) = Entry(mem[items[j]])
                                 /\ InQueue(priorityQueue', items'[j])
                     /\ Tracked(priorityQueue', mem')]_vars

\* Remove has just returned true for one key while the other key's entry stays
\* in the map and in the index.
C12_Witness ==
    /\ ret.call = "Remove"
    /\ ret.result
    /\ Len(priorityQueue) >= 1
    /\ \E j \in Keys : items[j] # Nil /\ InQueue(priorityQueue, items[j])

\* ----------------------------------------------------------------- C13
\* C13. Map/index agreement: whenever the lock is free, the items of the index
\* are exactly the values of the map, one per stored key, so that the length of
\* the index is Count().
C13_MapIndexAgreement ==
    mutex = "free" =>
        /\ \A id \in Ids : InQueue(priorityQueue, id) => items[mem[id].key] = id
        /\ \A k \in Keys : items[k] # Nil => InQueue(priorityQueue, items[k])
        /\ Len(priorityQueue) = Cardinality({k \in Keys : items[k] # Nil})

\* ----------------------------------------------------------------- C14
\* An entry whose ttl is positive and whose expire_at is set and in the past.
TimeExpired(it) == it.TTL > 0 /\ it.ExpireAt # ZeroTime /\ it.ExpireAt < now

\* C14. An entry with an unset expire_at is never treated as expired: a Get
\* misses a key of the map, and an eviction pass evicts an entry or asks the
\* conditional-eviction callback about it, only if the entry's ttl is positive
\* and its expire_at is set and in the past.
C14_UnsetNeverExpired ==
    [][/\ (ret'.call = "Get" /\ ~ret'.result /\ items[ret'.key] # Nil) =>
             TimeExpired(mem[items[ret'.key]])
       /\ (/\ sweepPc = "scan"
           /\ \/ sweepPc' = "callback"
              \/ Len(priorityQueue') < Len(priorityQueue)) =>
             TimeExpired(mem[priorityQueue[i + 1]])]_vars

\* ----------------------------------------------------------------- C15
\* C15. The lock is free whenever caller-supplied code runs: while the
\* conditional-eviction callback or a new-item callback is executing, no
\* goroutine holds the mutex, so the callback may call Get, Set, Remove or Count.
C15_CallbacksOutsideLock ==
    (sweepPc = "callback" \/ \E t \in Threads : pc[t] = "newItemCallback") =>
        mutex = "free"

\* ----------------------------------------------------------------- C16
\* C16. When an eviction pass ends and the loop goes back to Sleeping, the index
\* is empty or its head is not expired: an entry the callback kept does not stop
\* the pass before the other expired entries were examined.
C16_PassLeavesNoExpiredHead ==
    [][(sweepPc \in {"scan", "callback"} /\ sweepPc' = "top") =>
           \/ Len(priorityQueue') = 0
           \/ ~expired(mem'[priorityQueue'[1]], now')]_vars

\* ----------------------------------------------------------------- C20
\* C20. The eviction scan stays in bounds: whenever the pass reads
\* priorityQueue.items[i], 0 <= i < the index's length, and no pass ends in an
\* index-out-of-range access.
C20_ScanInBounds ==
    /\ sweepPc \in {"scan", "callback"} => 0 <= i /\ i < Len(priorityQueue)
    /\ sweepPc # "panic"

SetExpireAts ==
    {mem[priorityQueue[n]].ExpireAt : n \in 1..Len(priorityQueue)} \ {ZeroTime}

\* C19. No oversleep: while the loop sleeps and no caller is about to send a wake
\* signal, the recorded wake instant is not later than any set expire_at of the
\* index (or it is already due, the deadline having been past when the wake was
\* computed), and not later than one global ttl from now when a global ttl is
\* configured.
C19_NoOversleep ==
    (sweepPc = "select" /\ \A t \in Threads : pc[t] # "notify") =>
        /\ \A e \in SetExpireAts :
               expirationTime <= e \/ expirationTime <= now + Microsecond
        /\ ttl > 0 => expirationTime <= now + ttl

\* ----------------------------------------------------------------- C17
\* C17. Eventual eviction rests on the head of the index: a pass starts at the
\* head and ends at the first entry that is not expired, so a time-expired entry
\* is reached only if no entry without a deadline sits ahead of it. Whenever the
\* lock is free and the index holds a time-expired entry, the head of the index
\* is an entry with a deadline (ttl > 0).
C17_NoDeadlineNeverAhead ==
    mutex = "free" =>
        \A n \in 1..Len(priorityQueue) :
            TimeExpired(mem[priorityQueue[n]]) => mem[priorityQueue[1]].TTL > 0

\* ----------------------------------------------------------------- C11
\* The step is an eviction by the Sweep Loop.
SweepEvicts ==
    sweepPc \in {"scan", "callback"} /\ Len(priorityQueue') < Len(priorityQueue)

\* The entries that leave the map in the step, as <<key, value>>.
Leaving ==
    {<<k, mem[items[k]].Data>> : k \in {j \in Keys : items[j] # Nil /\ items'[j] = Nil}}

\* C11. Expiration notification: with an expiration callback set, an eviction by
\* the Sweep Loop dispatches the callback exactly once, with the key and the
\* value of the entry that leaves the store in that eviction; no other step
\* dispatches it: not Remove, Purge or Close, and not the keeping of an entry the
\* conditional-eviction callback vetoed.
C11_ExpirationNotification ==
    [][IF SweepEvicts /\ expireCallback
       THEN Cardinality(started') = 1 /\ started' = Leaving
       ELSE started' = {}]_vars

\* ------------------------------------------- the expiration index on its own
\* priority_queue.go driven directly, as priority_queue_test.go drives it: the
\* objects are PQIds, each pushed at most once, with any ExpireAt (ZeroTime: unset).
MaxQueue == 4
MaxExpire == 2

PQIds == 1..MaxQueue
ExpireAts == ZeroTime..MaxExpire

\* newPriorityQueue(), no Item allocated yet.
InitPQ ==
    /\ now = StartTime
    /\ ttl = 0
    /\ items = [k \in Keys |-> Nil]
    /\ mem = [id \in PQIds |-> NoItem]
    /\ priorityQueue = <<>>
    /\ expirationTime = StartTime
    /\ skipTTLExtension = FALSE
    /\ checkExpireCallback = FALSE
    /\ expireCallback = FALSE
    /\ newItemCallback = FALSE
    /\ isShutDown = FALSE
    /\ shutdownClosed = FALSE
    /\ mutex = "free"
    /\ sweepPc = "top"
    /\ i = 0
    /\ pc = [t \in Threads |-> "idle"]
    /\ call = [t \in Threads |-> NoCall]
    /\ ret = NoRet
    /\ handshakes = 0
    /\ started = {}

\* queue.push(&Item{ExpireAt: e}) of a new Item.
PQPush(e) ==
    /\ \E id \in PQIds : mem[id] = NoItem
    /\ LET id == Min({x \in PQIds : mem[x] = NoItem})
           it == [key |-> id, Data |-> NoData, TTL |-> ItemNotExpire, ExpireAt |-> e,
                  queueIndex |-> -1]
           h == push([pq |-> priorityQueue, mem |-> [mem EXCEPT ![id] = it]], id)
       IN /\ priorityQueue' = h.pq
          /\ mem' = h.mem
    /\ started' = {}
    /\ ret' = NoRet
    /\ UNCHANGED <<now, ttl, items, expirationTime, skipTTLExtension, checkExpireCallback, expireCallback,
                   newItemCallback, isShutDown, shutdownClosed, mutex, sweepPc, i, pc,
                   call, handshakes>>

\* queue.pop()
PQPop ==
    /\ LET r == pop(Queue)
       IN /\ priorityQueue' = r.h.pq
          /\ mem' = r.h.mem
          /\ started' = {}
          /\ ret' = [call |-> "pop", key |-> r.item, result |-> r.item # Nil]
    /\ UNCHANGED <<now, ttl, items, expirationTime, skipTTLExtension, checkExpireCallback, expireCallback,
                   newItemCallback, isShutDown, shutdownClosed, mutex, sweepPc, i, pc,
                   call, handshakes>>

\* queue.remove(item) of an item the queue tracks.
PQRemove(id) ==
    /\ InQueue(priorityQueue, id)
    /\ LET h == remove(Queue, id)
       IN /\ priorityQueue' = h.pq
          /\ mem' = h.mem
    /\ started' = {}
    /\ ret' = NoRet
    /\ UNCHANGED <<now, ttl, items, expirationTime, skipTTLExtension, checkExpireCallback, expireCallback,
                   newItemCallback, isShutDown, shutdownClosed, mutex, sweepPc, i, pc,
                   call, handshakes>>

\* item.ExpireAt = e; queue.update(item) of an item the queue tracks.
PQUpdate(id, e) ==
    /\ InQueue(priorityQueue, id)
    /\ LET h == update([pq |-> priorityQueue,
                        mem |-> [mem EXCEPT ![id].ExpireAt = e]], id)
       IN /\ priorityQueue' = h.pq
          /\ mem' = h.mem
    /\ started' = {}
    /\ ret' = NoRet
    /\ UNCHANGED <<now, ttl, items, expirationTime, skipTTLExtension, checkExpireCallback, expireCallback,
                   newItemCallback, isShutDown, shutdownClosed, mutex, sweepPc, i, pc,
                   call, handshakes>>

NextPQ ==
    \/ \E e \in ExpireAts : PQPush(e)
    \/ PQPop
    \/ \E id \in PQIds : PQRemove(id)
    \/ \E id \in PQIds : \E e \in ExpireAts : PQUpdate(id, e)

SpecPQ == InitPQ /\ [][NextPQ]_vars

\* ----------------------------------------------------------------- C9
\* The ordering of the index: a set expire_at before a later one, an unset one
\* after every set one.
Precedes(x, y) == x # ZeroTime /\ (y = ZeroTime \/ x < y)

HeadIsMinimal(q, m) ==
    \A n \in 1..Len(q) : ~Precedes(m[q[n]].ExpireAt, m[q[1]].ExpireAt)

PositionsMatch(q, m) ==
    /\ \A n \in 1..Len(q) : m[q[n]].queueIndex = n - 1
    /\ \A a, b \in 1..Len(q) : q[a] = q[b] => a = b

\* An item that was pushed and is no longer tracked: popped or removed.
Gone(q, m, id) == m[id] # NoItem /\ ~InQueue(q, id)

\* C9. Heap invariant: after every push, pop, remove and update the item at
\* position 0 is minimal (set expire_at ascending, unset ones last), every
\* tracked item's queueIndex is its array position, an item that left the index
\* stays out of it with queueIndex -1; pop returns the head, which nothing left
\* in the index precedes (so repeated pops come in non-decreasing order), and
\* nil on an empty index.
C9_HeapInvariant ==
    [][/\ HeadIsMinimal(priorityQueue', mem')
       /\ PositionsMatch(priorityQueue', mem')
       /\ \A id \in PQIds : Gone(priorityQueue, mem, id) =>
              Gone(priorityQueue', mem', id) /\ mem'[id].queueIndex = -1
       /\ ret'.call = "pop" =>
              IF Len(priorityQueue) = 0
              THEN ret'.key = Nil /\ priorityQueue' = <<>>
              ELSE /\ ret'.key = priorityQueue[1]
                   /\ Gone(priorityQueue', mem', ret'.key)
                   /\ Len(priorityQueue') = Len(priorityQueue) - 1
                   /\ \A n \in 1..Len(priorityQueue') :
                          ~Precedes(mem'[priorityQueue'[n]].ExpireAt,
                                    mem[priorityQueue[1]].ExpireAt)]_vars

\* A pop has just returned the head of an index of at least three items, of which
\* one has no expire_at set, while an item that left earlier stays out.
C9_Witness ==
    /\ ret.call = "pop"
    /\ ret.result
    /\ Len(priorityQueue) >= 2
    /\ \E n \in 1..Len(priorityQueue) : mem[priorityQueue[n]].ExpireAt = ZeroTime
    /\ \E n \in 1..Len(priorityQueue) : mem[priorityQueue[n]].ExpireAt # ZeroTime
    /\ Cardinality({id \in PQIds : Gone(priorityQueue, mem, id)}) >= 2

====
